---- MODULE Spec2Model ----
(***************************************************************************)
(* A model of Walmart_webscrapper.py: the URL normalizer, the search-page  *)
(* link extractor (get_link), the product-record extractor (prod_info and  *)
(* parse_next_data) and the paging / product loops of main.                *)
(*                                                                         *)
(* Text is modelled as a sequence of tokens.  A token is either one of the *)
(* delimiter characters ":", "/", "?", "#", "[" or a run of characters     *)
(* that are all letters, digits or dots ("a", "ip", "https",               *)
(* "www.walmart.com").                                                     *)
(***************************************************************************)
EXTENDS Integers, Sequences, FiniteSets, TLC

VARIABLES
    mode,            \* which component this behaviour exercises
    pc,              \* position of the running function
    raw,             \* normalize_product_url: the argument
    norm1,           \* normalize_product_url(raw)
    norm2,           \* normalize_product_url(normalize_product_url(raw))
    searchPage,      \* get_link: the response to the search-page request
    product_urls,    \* get_link: local product_urls
    ranFallback,     \* get_link: whether the regex block (lines 83-90) was entered
    linkOut,         \* get_link: the list returned or the exception raised
    prodPage,        \* prod_info: the product page that was served
    tried,           \* prod_info: the strategies attempted so far, in order
    prodOut,         \* prod_info: the record returned or the exception raised
    max_results,     \* main: local max_results
    max_pages,       \* main: local max_pages
    page,            \* main: loop variable of the paging loop
    collected_urls,  \* main: local collected_urls
    collected_set,   \* main: local collected_set
    results,         \* main: local results
    idx,             \* main: number of product URLs already processed
    pageLog,         \* history: outcome of every search-page fetch, in order
    prodLog          \* history: URL and outcome of every product fetch, in order

normVars == <<raw, norm1, norm2>>
linkVars == <<searchPage, product_urls, ranFallback, linkOut>>
prodVars == <<prodPage, tried, prodOut>>
mainVars == <<max_results, max_pages, page, collected_urls, collected_set,
              results, idx, pageLog, prodLog>>

vars == <<mode, pc, normVars, linkVars, prodVars, mainVars>>

----------------------------------------------------------------------------
(* Bounds of the model *)

MaxUrlLen == 5

----------------------------------------------------------------------------
(* Sequence helpers (Python str / list primitives) *)

\* s.find(c), 1-based; 0 when c does not occur
Find(s, c) ==
    IF \E i \in 1..Len(s) : s[i] = c
    THEN CHOOSE i \in 1..Len(s) : s[i] = c /\ \A j \in 1..(i-1) : s[j] # c
    ELSE 0

\* s[:n] for n >= 0
Prefix(s, n) == SubSeq(s, 1, IF n < Len(s) THEN n ELSE Len(s))

\* s[n:] for a 1-based first index n
Suffix(s, n) == SubSeq(s, n, Len(s))

\* s.startswith(p)
StartsWith(s, p) == Len(s) >= Len(p) /\ SubSeq(s, 1, Len(p)) = p

\* s.split(c)[0]
SplitFirst(s, c) == IF Find(s, c) = 0 THEN s ELSE SubSeq(s, 1, Find(s, c) - 1)

Range(s) == {s[i] : i \in 1..Len(s)}

Min(a, b) == IF a < b THEN a ELSE b

----------------------------------------------------------------------------
(* urllib.parse.urlsplit / urlunsplit as normalize_product_url uses them *)

\* tokens made only of characters urlsplit accepts in a scheme
SchemeTokens == {"a", "A", "b", "B", "c", "q", "f", "ip", "1", "2",
                 "http", "https", "www.walmart.com"}

\* tokens whose first character is not an ASCII letter
NonAlphaStart == {"1", "2"}

\* str.lower() on a token
LowerTok(t) == CASE t = "A" -> "a" [] t = "B" -> "b" [] OTHER -> t

Lower(s) == [i \in 1..Len(s) |-> LowerTok(s[i])]

\* the scheme test of urlsplit: a ':' after a first letter and only scheme characters
HasScheme(url) ==
    LET i == Find(url, ":") IN
    /\ i > 1
    /\ url[1] \in SchemeTokens \ NonAlphaStart
    /\ \A j \in 1..(i-1) : url[j] \in SchemeTokens

\* _splitnetloc(url, 2): the index of the first of "/?#" after the leading "//"
NetlocEnd(url) ==
    LET ds == {i \in 3..Len(url) : url[i] \in {"/", "?", "#"}} IN
    IF ds = {} THEN Len(url) + 1
    ELSE CHOOSE i \in ds : \A j \in ds : i <= j

\* a slip: only the query string is split off, the fragment stays in the path
StripFragmentQueryMut(url) == SplitFirst(url, "?")

\* url.split('#', 1)[0] and then url.split('?', 1)[0]: the path
StripFragmentQuery(url) == SplitFirst(SplitFirst(url, "#"), "?")

\* urlsplit(raw): [ok |-> FALSE] stands for ValueError("Invalid IPv6 URL")
UrlSplit(url0) ==
    LET hs     == HasScheme(url0)
        scheme == IF hs THEN Lower(SubSeq(url0, 1, Find(url0, ":") - 1)) ELSE <<>>
        url1   == IF hs THEN Suffix(url0, Find(url0, ":") + 1) ELSE url0
        hn     == StartsWith(url1, <<"/", "/">>)
        netloc == IF hn THEN SubSeq(url1, 3, NetlocEnd(url1) - 1) ELSE <<>>
        url2   == IF hn THEN Suffix(url1, NetlocEnd(url1)) ELSE url1
    IN  IF "[" \in Range(netloc)
        THEN [ok |-> FALSE, scheme |-> <<>>, netloc |-> <<>>, path |-> <<>>]
        ELSE [ok |-> TRUE, scheme |-> scheme, netloc |-> netloc,
              path |-> StripFragmentQuery(url2)]

\* urlunsplit((scheme, netloc, path, "", "")) for a non-empty scheme and netloc
UrlUnsplit(scheme, netloc, path) ==
    LET p == IF path # <<>> /\ path[1] # "/" THEN <<"/">> \o path ELSE path
    IN  scheme \o <<":">> \o <<"/", "/">> \o netloc \o p

DefaultScheme == <<"https">>
DefaultHost == <<"www.walmart.com">>

\* normalize_product_url(raw); ok = FALSE when urlsplit raises
normalize_product_url(r) ==
    LET parsed == UrlSplit(r)
        scheme == IF parsed.scheme # <<>> THEN parsed.scheme ELSE DefaultScheme
        netloc == IF parsed.netloc # <<>> THEN parsed.netloc ELSE DefaultHost
    IN  IF parsed.ok
        THEN [ok |-> TRUE, url |-> UrlUnsplit(scheme, netloc, parsed.path)]
        ELSE [ok |-> FALSE, url |-> <<>>]

----------------------------------------------------------------------------
(* Inputs of the normalizer *)

UrlAlphabet == {"a", "A", ":", "/", "?", "#", "["}

RECURSIVE SeqsUpTo(_, _)
SeqsUpTo(S, n) ==
    IF n = 0 THEN {<<>>}
    ELSE LET shorter == SeqsUpTo(S, n - 1)
         IN  shorter \cup {Append(s, x) : s \in {t \in shorter : Len(t) = n - 1}, x \in S}

RawUrls == SeqsUpTo(UrlAlphabet, MaxUrlLen)

NoValue == [ok |-> FALSE, url |-> <<>>]

\* the variables of the components a behaviour does not exercise
NormIdle == raw = <<>> /\ norm1 = NoValue /\ norm2 = NoValue
LinkIdle == searchPage = <<>> /\ product_urls = <<>> /\ ranFallback = FALSE /\ linkOut = <<>>
ProdIdle == prodPage = <<>> /\ tried = <<>> /\ prodOut = <<>>
MainIdle ==
    /\ max_results = 0 /\ max_pages = 0 /\ page = 0
    /\ collected_urls = <<>> /\ collected_set = {}
    /\ results = <<>> /\ idx = 0 /\ pageLog = <<>> /\ prodLog = <<>>

InitNorm ==
    /\ mode = "normalize"
    /\ pc = "call"
    /\ raw \in RawUrls
    /\ norm1 = NoValue
    /\ norm2 = NoValue
    /\ LinkIdle /\ ProdIdle /\ MainIdle

\* the first call normalize_product_url(raw)
NormalizeCall ==
    /\ mode = "normalize" /\ pc = "call"
    /\ norm1' = normalize_product_url(raw)
    /\ pc' = IF norm1'.ok THEN "again" ELSE "raised"
    /\ UNCHANGED <<mode, raw, norm2, linkVars, prodVars, mainVars>>

\* the second call, on the first call's result
NormalizeAgain ==
    /\ mode = "normalize" /\ pc = "again"
    /\ norm2' = normalize_product_url(norm1.url)
    /\ pc' = "done"
    /\ UNCHANGED <<mode, raw, norm1, linkVars, prodVars, mainVars>>

NextNorm == NormalizeCall \/ NormalizeAgain

SpecNorm == InitNorm /\ [][NextNorm]_vars

\* the part of a URL before its query string and fragment
WithoutQueryFragment(u) ==
    LET cut == {i \in 1..Len(u) : u[i] \in {"?", "#"}} IN
    IF cut = {} THEN u
    ELSE SubSeq(u, 1, (CHOOSE i \in cut : \A j \in cut : i <= j) - 1)

----------------------------------------------------------------------------
(* get_link: the link extractor *)

SitePrefix == <<"https", ":", "/", "/", "www.walmart.com">>

\* "/ip/" in href
ContainsIp(s) ==
    \E i \in 1..(Len(s) - 2) : s[i] = "/" /\ s[i+1] = "ip" /\ s[i+2] = "/"

\* href.lower().startswith("/b/")
IsCategory(href) == StartsWith(Lower(href), <<"/", "b", "/">>)

\* href.startswith("http")
StartsWithHttp(href) == href # <<>> /\ href[1] \in {"http", "https"}

\* href.split("?")[0].split("#")[0]
StripQueryFragment(s) == SplitFirst(SplitFirst(s, "?"), "#")

\* lines 75-78: the canonical URL of an accepted href, with the except branch
Canonical(href) ==
    LET n == normalize_product_url(IF StartsWithHttp(href) THEN href
                                   ELSE SitePrefix \o href)
    IN  IF n.ok THEN n.url ELSE SitePrefix \o StripQueryFragment(href)

\* line 72: the filter on an anchor's href
AcceptsAnchor(e) == e.tag = "a" /\ ContainsIp(e.text) /\ ~IsCategory(e.text)

\* lines 70-79: the loop over the anchors, in document order
RECURSIVE AnchorUrls(_)
AnchorUrls(elems) ==
    IF elems = <<>> THEN <<>>
    ELSE LET rest == AnchorUrls(SubSeq(elems, 1, Len(elems) - 1))
             e    == elems[Len(elems)]
         IN  IF AcceptsAnchor(e) THEN Append(rest, Canonical(e.text)) ELSE rest

\* the places of a text where the pattern's group (/ip/[^"'\\\s<>]+) can start:
\* "/ip/" followed by at least one more character
IpStarts(t) ==
    {i \in 1..(Len(t) - 3) : t[i] = "/" /\ t[i+1] = "ip" /\ t[i+2] = "/"}

\* re.findall on one quoted text: the group runs to the closing quote
RegexGroup(t) ==
    IF IpStarts(t) = {} THEN <<>>
    ELSE SubSeq(t, CHOOSE i \in IpStarts(t) : \A j \in IpStarts(t) : i <= j, Len(t))

\* lines 83-90: the loop over the raw matches, in document order
RECURSIVE RegexUrls(_)
RegexUrls(elems) ==
    IF elems = <<>> THEN <<>>
    ELSE LET rest == RegexUrls(SubSeq(elems, 1, Len(elems) - 1))
             m    == RegexGroup(elems[Len(elems)].text)
             p    == StripQueryFragment(m)
         IN  IF m = <<>> \/ ~StartsWith(p, <<"/", "ip", "/">>) THEN rest
             ELSE Append(rest, SitePrefix \o p)

\* a slip: the regex block runs whatever the anchors gave
FallbackNeededMut(urls) == TRUE

\* line 82: if not product_urls
FallbackNeeded(urls) == urls = <<>>

\* a slip: nothing is removed
DedupeMut(s) == s

\* lines 93-98: dedupe preserving order
RECURSIVE DedupeLoop(_)
DedupeLoop(s) ==
    IF s = <<>> THEN <<>>
    ELSE LET deduped == DedupeLoop(SubSeq(s, 1, Len(s) - 1))
             u       == s[Len(s)]
         IN  IF u \in Range(deduped) THEN deduped ELSE Append(deduped, u)

Dedupe(s) == DedupeLoop(s)

LinkRaise(e) == [kind |-> "raise", exc |-> e, urls |-> <<>>]
LinkReturn(u) == [kind |-> "return", exc |-> "", urls |-> u]
NoLink == [kind |-> "none", exc |-> "", urls |-> <<>>]

\* get_link as one call: what main sees
get_link(resp) ==
    IF resp.status = "error" THEN LinkRaise("RequestException")
    ELSE IF resp.bot THEN LinkRaise("RuntimeError")
    ELSE LET anchors == AnchorUrls(resp.elems)
         IN  LinkReturn(Dedupe(IF FallbackNeeded(anchors)
                               THEN RegexUrls(resp.elems) ELSE anchors))

(* Search pages *)

MaxElems == 3

HrefPlain == <<"/", "ip", "/", "a">>
HrefQuery == <<"/", "ip", "/", "a", "?", "q">>
HrefFrag  == <<"/", "ip", "/", "b", "#", "f">>
HrefCat   == <<"/", "B", "/", "ip", "/", "c">>
HrefAbs   == <<"https", ":", "/", "/", "www.walmart.com", "/", "ip", "/", "a">>
HrefOther == <<"/", "c">>
HrefBad   == <<"http", ":", "/", "/", "[", "/", "ip", "/", "b">>
HrefBare  == <<"/", "ip", "/">>

Texts == {HrefPlain, HrefQuery, HrefFrag, HrefCat, HrefAbs, HrefOther, HrefBad, HrefBare}

\* an anchor with an href, or a script whose text quotes a path
Elements == [tag : {"a", "script"}, text : Texts]

FetchError == [status |-> "error", bot |-> FALSE, elems |-> <<>>]
BotPage == [status |-> "ok", bot |-> TRUE, elems |-> <<>>]
ContentPage(e) == [status |-> "ok", bot |-> FALSE, elems |-> e]

SearchPages ==
    {FetchError, BotPage} \cup {ContentPage(e) : e \in SeqsUpTo(Elements, MaxElems)}

InitLink ==
    /\ mode = "link"
    /\ pc = "fetch"
    /\ searchPage \in SearchPages
    /\ product_urls = <<>>
    /\ ranFallback = FALSE
    /\ linkOut = NoLink
    /\ NormIdle /\ ProdIdle /\ MainIdle

\* lines 57-63: the request failed or a bot-check page was served
GetLinkRaise ==
    /\ mode = "link" /\ pc = "fetch"
    /\ get_link(searchPage).kind = "raise"
    /\ linkOut' = get_link(searchPage)
    /\ pc' = "raised"
    /\ UNCHANGED <<mode, searchPage, product_urls, ranFallback, normVars, prodVars, mainVars>>

\* lines 65-79: the page is parsed and the anchors are collected
GetLinkAnchors ==
    /\ mode = "link" /\ pc = "fetch"
    /\ searchPage.status = "ok" /\ ~searchPage.bot
    /\ product_urls' = AnchorUrls(searchPage.elems)
    /\ pc' = IF FallbackNeeded(product_urls') THEN "fallback" ELSE "dedupe"
    /\ UNCHANGED <<mode, searchPage, ranFallback, linkOut, normVars, prodVars, mainVars>>

\* lines 82-90: the regex over the raw HTML
GetLinkFallback ==
    /\ mode = "link" /\ pc = "fallback"
    /\ product_urls' = RegexUrls(searchPage.elems)
    /\ ranFallback' = TRUE
    /\ pc' = "dedupe"
    /\ UNCHANGED <<mode, searchPage, linkOut, normVars, prodVars, mainVars>>

\* lines 92-100: dedupe and return
GetLinkDedupe ==
    /\ mode = "link" /\ pc = "dedupe"
    /\ linkOut' = LinkReturn(Dedupe(product_urls))
    /\ pc' = "done"
    /\ UNCHANGED <<mode, searchPage, product_urls, ranFallback, normVars, prodVars, mainVars>>

NextLink == GetLinkRaise \/ GetLinkAnchors \/ GetLinkFallback \/ GetLinkDedupe

SpecLink == InitLink /\ [][NextLink]_vars

\* the URLs of the product paths quoted anywhere in the raw page text
RawTextUrls(resp) == Range(RegexUrls(resp.elems))

\* the URLs of the anchors the structural strategy accepts
StructuralUrls(resp) == Range(AnchorUrls(resp.elems))

\* the stepwise run and the one-call form of get_link agree
LinkStepsAgree ==
    (mode = "link" /\ pc \in {"done", "raised"}) => linkOut = get_link(searchPage)

\* C4: get_link enters the regex block exactly when the anchors gave no URL;
\* with an accepted anchor the output holds no URL found only in the raw text,
\* and without one the output holds every raw-text product path
C4_FallbackIffNoAnchors ==
    (mode = "link" /\ pc = "done") =>
        /\ ranFallback <=> (StructuralUrls(searchPage) = {})
        /\ StructuralUrls(searchPage) # {} =>
               \A u \in RawTextUrls(searchPage) \ StructuralUrls(searchPage) :
                   u \notin Range(linkOut.urls)
        /\ StructuralUrls(searchPage) = {} =>
               \A u \in RawTextUrls(searchPage) : u \in Range(linkOut.urls)

\* C4 witness: a page with an anchor the filter rejects and a product path in
\* a script, for which the regex block ran and gave a URL
C4_Witness ==
    /\ mode = "link" /\ pc = "done" /\ ranFallback
    /\ \E i \in 1..Len(searchPage.elems) : searchPage.elems[i].tag = "a"
    /\ \E i \in 1..Len(searchPage.elems) : searchPage.elems[i].tag = "script"
    /\ linkOut.urls # <<>>

\* the place of the first occurrence of u in s
FirstIndex(s, u) == CHOOSE i \in 1..Len(s) : s[i] = u /\ \A j \in 1..(i-1) : s[j] # u

\* C5: the list get_link returns has no duplicate, holds exactly the candidate
\* URLs, and orders them by their first occurrence among the candidates
C5_DedupedInOrder ==
    (mode = "link" /\ pc = "done") =>
        LET out == linkOut.urls IN
        /\ \A i, j \in 1..Len(out) : i # j => out[i] # out[j]
        /\ Range(out) = Range(product_urls)
        /\ \A i, j \in 1..Len(out) :
               i < j => FirstIndex(product_urls, out[i]) < FirstIndex(product_urls, out[j])

\* C5 witness: candidates a, b, a (in three spellings) came back as a, b
C5_Witness ==
    /\ mode = "link" /\ pc = "done"
    /\ Len(product_urls) = 3 /\ Len(linkOut.urls) = 2
    /\ product_urls[1] = product_urls[3] /\ product_urls[1] # product_urls[2]

----------------------------------------------------------------------------
(* JSON values as parse_next_data and prod_info read them.  A scalar is a   *)
(* string ("None" is Python's None, "0" the number 0); a dict of scalars is *)
(* a function from its keys; a value whose type matters is a record with    *)
(* its kind k and, for a dict, its content d.                               *)

EmptyDict == [key \in {} |-> ""]

\* d.get(key, default)
Get(d, key, default) == IF key \in DOMAIN d THEN d[key] ELSE default

\* the scalars Python treats as false
Falsy == {"None", "0", "", "[]"}

\* a or b
Or(a, b) == IF a \notin Falsy THEN a ELSE b

\* bool(v) for a value with a kind: a non-empty dict or a non-empty string
Truthy(v) == v.k = "str" \/ (v.k = "dict" /\ DOMAIN v.d # {})

Absent == [k |-> "absent", d |-> EmptyDict]
Null == [k |-> "null", d |-> EmptyDict]
Str == [k |-> "str", d |-> EmptyDict]
Dict(d) == [k |-> "dict", d |-> d]

NoInfo == [name |-> "None", price |-> "None", availability |-> "None",
           brand |-> "None", model |-> "None", features |-> "None",
           rating |-> "None", review_count |-> "None"]

Raised(e) == [ok |-> FALSE, exc |-> e, info |-> NoInfo]
Returned(i) == [ok |-> TRUE, exc |-> "", info |-> i]

\* line 126: reviews.get("customerRating", 0) or product.get("rating")
NextRating(reviews, product) ==
    Or(Get(reviews, "customerRating", "0"), Get(product, "rating", "None"))

\* line 111: the product, or the first element of the products list
NextProduct(doc) ==
    IF Truthy(doc.product) THEN doc.product
    ELSE IF doc.products.k = "list" /\ doc.products.items # <<>>
         THEN doc.products.items[1]
         ELSE Absent

\* parse_next_data(script_text); ok = FALSE when it raises
parse_next_data(script) ==
    IF script.k = "malformed" THEN Raised("JSONDecodeError")
    ELSE IF script.doc.top # "dict" THEN Raised("AttributeError")
    ELSE LET product == NextProduct(script.doc)
             reviews == IF script.doc.reviews.k = "dict" THEN script.doc.reviews.d
                        ELSE EmptyDict
         IN  IF ~Truthy(product) THEN Raised("KeyError")
             ELSE IF product.k # "dict" THEN Raised("AttributeError")
             ELSE Returned(
                 [name |-> Get(product.d, "name", "None"),
                  price |-> Get(product.d, "price", "None"),
                  availability |-> Get(product.d, "availabilityStatus", "None"),
                  brand |-> Or(Get(product.d, "brand", "None"),
                               Get(product.d, "brandName", "None")),
                  model |-> Get(product.d, "modelNumber", "N/A"),
                  features |-> Or(Get(product.d, "keyProductFeatures", "[]"),
                                  Get(product.d, "bulletDescriptions", "[]")),
                  rating |-> NextRating(reviews, product.d),
                  review_count |-> Or(Get(product.d, "numReviews", "0"),
                                      Get(product.d, "reviewCount", "0"))])

\* a slip: the script is looked up under another id and never found
HasNextTextMut(pg) == FALSE

\* lines 150-153: the __NEXT_DATA__ script was found and its text is not empty
HasNextText(pg) == pg.next.k \notin {"absent", "empty"}

\* lines 150-158: strategy 1; a raise of parse_next_data is swallowed
Strategy1(pg) ==
    IF HasNextText(pg) THEN parse_next_data(pg.next) ELSE Raised("skipped")

\* str.lower() of an "@type" string
LowerType(t) == CASE t \in {"Product", "PRODUCT"} -> "product"
                  [] t = "Thing" -> "thing"
                  [] OTHER -> t

\* lines 176-204 for one dict item: "skip", a returned record or a raise
LdItem(item) ==
    IF item.type.k \notin {"absent", "str"}
    THEN [r |-> "raise", out |-> Raised("AttributeError")]
    ELSE
    LET t == IF item.type.k = "absent" THEN "" ELSE LowerType(item.type.v)
        brand == CASE item.brand.k = "dict" -> Get(item.brand.d, "name", "None")
                   [] item.brand.k = "str" -> item.brand.v
                   [] OTHER -> "None"
        offers == IF item.offers.k = "dict" THEN item.offers.d ELSE EmptyDict
        agg == IF item.agg.k = "dict" THEN item.agg.d ELSE EmptyDict
    IN  IF ~(t = "product" \/ item.offers.k # "absent")
        THEN [r |-> "skip", out |-> Raised("")]
        ELSE IF item.agg.k = "str"
        THEN [r |-> "raise", out |-> Raised("AttributeError")]
        ELSE [r |-> "return", out |-> Returned(
                 [name |-> Get(item.d, "name", "None"),
                  price |-> Or(Get(offers, "price", "None"),
                               Get(offers, "lowPrice", "None")),
                  availability |-> Get(offers, "availability", "None"),
                  brand |-> brand,
                  model |-> Get(item.d, "sku", "N/A"),
                  features |-> Get(item.d, "description", ""),
                  rating |-> Get(agg, "ratingValue", "None"),
                  review_count |-> Or(Get(agg, "reviewCount", "None"),
                                      Get(agg, "reviewCount", "None"))])]

Skip == [r |-> "skip", out |-> Raised("")]

\* lines 173-204: the loop over the candidates of one block, from item i on
RECURSIVE LdItems(_, _)
LdItems(items, i) ==
    IF i > Len(items) THEN Skip
    ELSE IF items[i].k # "dict" THEN LdItems(items, i + 1)
    ELSE LET one == LdItem(items[i])
         IN  IF one.r = "skip" THEN LdItems(items, i + 1) ELSE one

\* lines 161-204: the loop over the ld+json scripts, from block i on; an
\* empty or unparsable block is skipped
RECURSIVE LdBlocks(_, _)
LdBlocks(blocks, i) ==
    IF i > Len(blocks) THEN Skip
    ELSE IF blocks[i].k \in {"empty", "malformed"} THEN LdBlocks(blocks, i + 1)
    ELSE LET one == LdItems(blocks[i].items, 1)
         IN  IF one.r = "skip" THEN LdBlocks(blocks, i + 1) ELSE one

\* strategy 2
Strategy2(pg) == LdBlocks(pg.ld, 1)

\* lines 207-235: strategy 3; every raise inside the try is swallowed
Strategy3(pg) ==
    IF ~pg.marker \/ pg.blob.k = "none" THEN Raised("skipped")
    ELSE IF pg.blob.k = "malformed" THEN Raised("JSONDecodeError")
    ELSE IF pg.blob.doc.top # "dict" THEN Raised("AttributeError")
    ELSE LET product == pg.blob.doc.product
             reviews == pg.blob.doc.reviews
         IN  IF ~Truthy(product) THEN Raised("no product")
             ELSE IF product.k # "dict" THEN Raised("AttributeError")
             ELSE IF reviews.k = "null" THEN Raised("AttributeError")
             ELSE Returned(
                 [name |-> Get(product.d, "name", "None"),
                  price |-> Get(product.d, "price", "None"),
                  availability |-> Get(product.d, "availabilityStatus", "None"),
                  brand |-> Get(product.d, "brand", "None"),
                  model |-> Get(product.d, "modelNumber", "N/A"),
                  features |-> Get(product.d, "keyProductFeatures", "[]"),
                  rating |-> Get(reviews.d, "customerRating", "0"),
                  review_count |-> Get(product.d, "numReviews", "0")])

SampleLimit == 1200

\* len(html[:1200].replace("\n", " ").strip()) for a page text of pg.lead
\* whitespace characters followed by pg.body other characters
SampleLen(pg) ==
    LET cut == Min(SampleLimit, pg.lead + pg.body)
    IN  IF pg.lead >= cut THEN 0 ELSE cut - pg.lead

NoOut == [kind |-> "none", exc |-> "", strategy |-> 0, info |-> NoInfo, sample |-> 0]
ProdRaise(e, n) == [kind |-> "raise", exc |-> e, strategy |-> 0, info |-> NoInfo, sample |-> n]
ProdReturn(st, i) == [kind |-> "return", exc |-> "", strategy |-> st, info |-> i, sample |-> 0]

\* prod_info as one call: what main sees
prod_info(pg) ==
    IF pg.status = "error" THEN ProdRaise("RequestException", 0)
    ELSE IF pg.bot THEN ProdRaise("BotCheck", 0)
    ELSE IF Strategy1(pg).ok THEN ProdReturn(1, Strategy1(pg).info)
    ELSE IF Strategy2(pg).r = "return" THEN ProdReturn(2, Strategy2(pg).out.info)
    ELSE IF Strategy2(pg).r = "raise" THEN ProdRaise(Strategy2(pg).out.exc, 0)
    ELSE IF Strategy3(pg).ok THEN ProdReturn(3, Strategy3(pg).info)
    ELSE ProdRaise("NoStructuredDataFound", SampleLen(pg))

(* Product pages *)

MaxBlocks == 2

ProductFull == ("name" :> "n1") @@ ("price" :> "9.99") @@ ("availabilityStatus" :> "IN_STOCK")
               @@ ("brand" :> "br1") @@ ("modelNumber" :> "m1")
               @@ ("keyProductFeatures" :> "[f1]") @@ ("rating" :> "4.5")
               @@ ("numReviews" :> "12")
ProductBare == ("name" :> "n2")
ProductAlias == ("name" :> "n3") @@ ("brandName" :> "br3") @@ ("bulletDescriptions" :> "[f3]")
                @@ ("rating" :> "3.0") @@ ("reviewCount" :> "7")

NoProducts == [k |-> "absent", items |-> <<>>]

DocOf(p, ps, r) == [top |-> "dict", product |-> p, products |-> ps, reviews |-> r]

DocFull == DocOf(Dict(ProductFull), NoProducts, Dict("customerRating" :> "4.8"))
DocBare == DocOf(Dict(ProductBare), NoProducts, Absent)
DocList == DocOf(Absent, [k |-> "list", items |-> <<Dict(ProductAlias)>>], Null)
DocNoProduct == DocOf(Absent, NoProducts, Absent)
DocProductStr == DocOf(Str, NoProducts, Absent)
DocReviewsNull == DocOf(Dict(ProductFull), NoProducts, Null)
DocTopList == [top |-> "list", product |-> Absent, products |-> NoProducts, reviews |-> Absent]

Json(doc) == [k |-> "json", doc |-> doc]
NoJson(kind) == [k |-> kind, doc |-> DocNoProduct]

\* the __NEXT_DATA__ script: absent, with an empty text, unparsable, or a document
NextScripts ==
    {NoJson("absent"), NoJson("empty"), NoJson("malformed")}
    \cup {Json(d) : d \in {DocFull, DocBare, DocList, DocNoProduct, DocProductStr, DocTopList}}

\* what follows the first '{"props"' of the raw page text, up to "</script>"
Blobs ==
    {NoJson("none"), NoJson("malformed")}
    \cup {Json(d) : d \in {DocFull, DocBare, DocNoProduct, DocReviewsNull}}

NoKV == [k |-> "absent", v |-> ""]
NoBrand == [k |-> "absent", v |-> "", d |-> EmptyDict]

ItemOf(type, d, brand, offers, agg) ==
    [k |-> "dict", type |-> type, d |-> d, brand |-> brand, offers |-> offers, agg |-> agg]

ItemProduct ==
    ItemOf([k |-> "str", v |-> "Product"],
           ("name" :> "n4") @@ ("sku" :> "s4") @@ ("description" :> "d4"),
           [k |-> "dict", v |-> "", d |-> ("name" :> "br4")],
           Dict(("price" :> "8.99") @@ ("availability" :> "InStock")),
           Dict(("ratingValue" :> "4.2") @@ ("reviewCount" :> "30")))
ItemOffersOnly ==
    ItemOf(NoKV, ("name" :> "n5"), [k |-> "str", v |-> "br5", d |-> EmptyDict],
           Dict("lowPrice" :> "5.00"), Absent)
ItemThing == ItemOf([k |-> "str", v |-> "Thing"], ("name" :> "n6"), NoBrand, Absent, Absent)
ItemTypeList == ItemOf([k |-> "list", v |-> ""], ("name" :> "n7"), NoBrand, Absent, Absent)
ItemAggStr == ItemOf([k |-> "str", v |-> "PRODUCT"], ("name" :> "n8"), NoBrand, Absent, Str)
ItemScalar == [k |-> "other", type |-> NoKV, d |-> EmptyDict, brand |-> NoBrand,
               offers |-> Absent, agg |-> Absent]

Block(kind, items) == [k |-> kind, items |-> items]

\* one application/ld+json script: empty, unparsable, one object or a list
LdBlockSet ==
    {Block("empty", <<>>), Block("malformed", <<>>),
     Block("list", <<ItemScalar, ItemThing, ItemProduct>>)}
    \cup {Block("object", <<i>>) :
             i \in {ItemProduct, ItemOffersOnly, ItemThing, ItemTypeList, ItemAggStr}}

\* the page text as (leading whitespace, other characters)
PageTexts == {<<0, 0>>, <<0, 40>>, <<1200, 40>>, <<5, 2000>>}

PageOf(n, ld, marker, blob, text) ==
    [status |-> "ok", bot |-> FALSE, next |-> n, ld |-> ld, marker |-> marker,
     blob |-> blob, lead |-> text[1], body |-> text[2]]

ProdFetchError == [status |-> "error", bot |-> FALSE, next |-> NoJson("absent"), ld |-> <<>>,
                   marker |-> FALSE, blob |-> NoJson("none"), lead |-> 0, body |-> 0]
ProdBotPage == [ProdFetchError EXCEPT !.status = "ok", !.bot = TRUE, !.body = 40]

\* a page that holds a script or the marker has text that is not whitespace
Consistent(pg) ==
    (pg.next.k # "absent" \/ pg.ld # <<>> \/ pg.marker) => pg.body > 0

ContentProductPages ==
    {pg \in {PageOf(n, ld, b.k # "none", b, t) :
                n \in NextScripts, ld \in SeqsUpTo(LdBlockSet, MaxBlocks),
                b \in Blobs, t \in PageTexts} : Consistent(pg)}
    \cup {PageOf(NoJson("absent"), <<>>, TRUE, NoJson("none"), <<0, 40>>)}

ProductPages == {ProdFetchError, ProdBotPage} \cup ContentProductPages

InitProd ==
    /\ mode = "product"
    /\ pc = "fetch"
    /\ prodPage \in ProductPages
    /\ tried = <<>>
    /\ prodOut = NoOut
    /\ NormIdle /\ LinkIdle /\ MainIdle

\* lines 140-145: the request failed or a bot-check page was served
ProdFetchRaise ==
    /\ mode = "product" /\ pc = "fetch"
    /\ prodPage.status = "error" \/ prodPage.bot
    /\ prodOut' = prod_info(prodPage)
    /\ pc' = "raised"
    /\ UNCHANGED <<mode, prodPage, tried, normVars, linkVars, mainVars>>

\* lines 147-158: the page is parsed and strategy 1 is tried
ProdTryNextData ==
    /\ mode = "product" /\ pc = "fetch"
    /\ prodPage.status = "ok" /\ ~prodPage.bot
    /\ tried' = Append(tried, 1)
    /\ IF Strategy1(prodPage).ok
       THEN prodOut' = ProdReturn(1, Strategy1(prodPage).info) /\ pc' = "done"
       ELSE prodOut' = prodOut /\ pc' = "ld"
    /\ UNCHANGED <<mode, prodPage, normVars, linkVars, mainVars>>

\* lines 160-204: strategy 2
ProdTryLinkedData ==
    /\ mode = "product" /\ pc = "ld"
    /\ tried' = Append(tried, 2)
    /\ LET two == Strategy2(prodPage) IN
       CASE two.r = "return" -> prodOut' = ProdReturn(2, two.out.info) /\ pc' = "done"
         [] two.r = "raise" -> prodOut' = ProdRaise(two.out.exc, 0) /\ pc' = "raised"
         [] OTHER -> prodOut' = prodOut /\ pc' = "heuristic"
    /\ UNCHANGED <<mode, prodPage, normVars, linkVars, mainVars>>

\* lines 206-235: strategy 3
ProdTryHeuristic ==
    /\ mode = "product" /\ pc = "heuristic"
    /\ tried' = Append(tried, 3)
    /\ IF Strategy3(prodPage).ok
       THEN prodOut' = ProdReturn(3, Strategy3(prodPage).info) /\ pc' = "done"
       ELSE prodOut' = prodOut /\ pc' = "nodata"
    /\ UNCHANGED <<mode, prodPage, normVars, linkVars, mainVars>>

\* lines 237-239: nothing worked
ProdNoData ==
    /\ mode = "product" /\ pc = "nodata"
    /\ prodOut' = ProdRaise("NoStructuredDataFound", SampleLen(prodPage))
    /\ pc' = "raised"
    /\ UNCHANGED <<mode, prodPage, tried, normVars, linkVars, mainVars>>

NextProd ==
    \/ ProdFetchRaise \/ ProdTryNextData \/ ProdTryLinkedData
    \/ ProdTryHeuristic \/ ProdNoData

SpecProd == InitProd /\ [][NextProd]_vars

ProdEnded == mode = "product" /\ pc \in {"done", "raised"}

\* the stepwise run and the one-call form of prod_info agree
ProdStepsAgree == ProdEnded => prodOut = prod_info(prodPage)

\* strategy 1 would succeed on the page: its __NEXT_DATA__ text parses to a product
NextDataValid(pg) == pg.next.k = "json" /\ parse_next_data(pg.next).ok

\* strategy 2 would succeed on the page: a linked-data item is extracted
LinkedDataValid(pg) == Strategy2(pg).r = "return"

\* C3: on a page where strategies 1 and 2 would both succeed the record is
\* strategy 1's; strategy 2's record is returned only when strategy 1 failed,
\* strategy 3's only when strategies 1 and 2 both failed
C3_StrategyPriority ==
    (ProdEnded /\ prodPage.status = "ok" /\ ~prodPage.bot) =>
        /\ (NextDataValid(prodPage) /\ LinkedDataValid(prodPage)) =>
               /\ prodOut.kind = "return" /\ prodOut.strategy = 1
               /\ prodOut.info = parse_next_data(prodPage.next).info
        /\ prodOut.strategy = 2 => ~NextDataValid(prodPage)
        /\ prodOut.strategy = 3 =>
               ~NextDataValid(prodPage) /\ ~LinkedDataValid(prodPage)

\* C3 witness: a page with a valid __NEXT_DATA__ product (n1) and a valid
\* linked-data Product, answered from __NEXT_DATA__
C3_Witness ==
    /\ ProdEnded /\ NextDataValid(prodPage) /\ LinkedDataValid(prodPage)
    /\ prodOut.strategy = 1 /\ prodOut.info.name = "n1"

\* the page holds a linked-data item typed Product or with an offers field
HasLinkedProduct(pg) ==
    \E b \in 1..Len(pg.ld) : \E i \in 1..Len(pg.ld[b].items) :
        LET item == pg.ld[b].items[i] IN
        /\ pg.ld[b].k \in {"object", "list"} /\ item.k = "dict"
        /\ \/ item.type.k = "str" /\ LowerType(item.type.v) = "product"
           \/ item.offers.k # "absent"

\* the raw text holds a framework JSON blob with a product object
HasBlobProduct(pg) ==
    /\ pg.marker /\ pg.blob.k = "json" /\ pg.blob.doc.top = "dict"
    /\ pg.blob.doc.product.k = "dict"

\* none of the three structured-data shapes is on the page
NoShapePresent(pg) ==
    ~NextDataValid(pg) /\ ~HasLinkedProduct(pg) /\ ~HasBlobProduct(pg)

\* C6 as claimed: on every fetched non-challenge page with none of the three
\* shapes, prod_info fails with NoStructuredDataFound and a non-empty sample
\* of at most 1200 characters
C6_NoDataSample ==
    (ProdEnded /\ prodPage.status = "ok" /\ ~prodPage.bot /\ NoShapePresent(prodPage)) =>
        /\ prodOut.kind = "raise" /\ prodOut.exc = "NoStructuredDataFound"
        /\ prodOut.sample > 0 /\ prodOut.sample <= SampleLimit

\* C8 as claimed: no returned record has a rating or a review count of None
C8_RatingDefaults ==
    (ProdEnded /\ prodOut.kind = "return") =>
        prodOut.info.rating # "None" /\ prodOut.info.review_count # "None"

\* C10 as claimed: on a fetched non-challenge page prod_info ends by returning
\* a record or by NoStructuredDataFound after all three strategies were tried
C10_FailuresContained ==
    (ProdEnded /\ prodPage.status = "ok" /\ ~prodPage.bot) =>
        /\ prodOut.kind = "return" \/ prodOut.exc = "NoStructuredDataFound"
        /\ prodOut.kind = "raise" => tried = <<1, 2, 3>>

----------------------------------------------------------------------------
(* main: the paging loop and the product loop *)

MaxPages == 3
MaxResults == 3

Anchor(h) == [tag |-> "a", text |-> h]
Script(h) == [tag |-> "script", text |-> h]

\* the search pages main is served
MainSearchPages ==
    {FetchError, BotPage, ContentPage(<<>>),
     ContentPage(<<Anchor(HrefPlain)>>),
     ContentPage(<<Anchor(HrefQuery), Anchor(HrefFrag), Anchor(HrefAbs)>>),
     ContentPage(<<Anchor(HrefFrag), Anchor(HrefPlain)>>),
     ContentPage(<<Anchor(HrefCat), Script(HrefCat)>>)}

\* the product pages main is served
MainProductPages ==
    {ProdFetchError, ProdBotPage,
     PageOf(NoJson("absent"), <<>>, FALSE, NoJson("none"), <<0, 40>>),
     PageOf(NoJson("absent"), <<Block("object", <<ItemTypeList>>)>>, FALSE,
            NoJson("none"), <<0, 40>>),
     PageOf(Json(DocFull), <<>>, FALSE, NoJson("none"), <<0, 40>>),
     PageOf(NoJson("absent"), <<Block("object", <<ItemOffersOnly>>)>>, FALSE,
            NoJson("none"), <<0, 40>>)}

\* lines 270-275: the loop over one page's urls, from urls[i] on, with its break
RECURSIVE AddUrls(_, _, _, _, _)
AddUrls(urls, i, coll, seen, maxr) ==
    IF i > Len(urls) THEN [urls |-> coll, seen |-> seen]
    ELSE IF urls[i] \in seen THEN AddUrls(urls, i + 1, coll, seen, maxr)
    ELSE IF Len(coll) + 1 >= maxr
         THEN [urls |-> Append(coll, urls[i]), seen |-> seen \cup {urls[i]}]
         ELSE AddUrls(urls, i + 1, Append(coll, urls[i]), seen \cup {urls[i]}, maxr)

\* a slip: the loop goes on to the next page after a failure
OnPageFailureMut(p) == [pc |-> "paging", page |-> p + 1]

\* lines 266-268: the except branch of the paging loop ends it
OnPageFailure(p) == [pc |-> "check", page |-> p]

\* a slip: the except branch of the product loop ends the loop
OnProductFailureMut(i, n) == n

\* lines 293-296: the except branch of the product loop goes on to the next URL
OnProductFailure(i, n) == i + 1

\* collected_urls[:max_results]
ToFetch == Prefix(collected_urls, max_results)

\* info["url"] = url
WithUrl(info, u) == info @@ ("url" :> u)

InitMain ==
    /\ mode = "main"
    /\ pc = "paging"
    /\ max_results \in 0..MaxResults
    /\ max_pages \in 0..MaxPages
    /\ page = 1
    /\ collected_urls = <<>>
    /\ collected_set = {}
    /\ results = <<>>
    /\ idx = 0
    /\ pageLog = <<>>
    /\ prodLog = <<>>
    /\ NormIdle /\ LinkIdle /\ ProdIdle

\* lines 263-268: get_link raises
FetchSearchPageFail ==
    /\ mode = "main" /\ pc = "paging" /\ page <= max_pages
    /\ \E resp \in MainSearchPages :
        /\ get_link(resp).kind = "raise"
        /\ pageLog' = Append(pageLog, [out |-> get_link(resp), had |-> Len(collected_urls)])
    /\ pc' = OnPageFailure(page).pc
    /\ page' = OnPageFailure(page).page
    /\ UNCHANGED <<mode, max_results, max_pages, collected_urls, collected_set,
                   results, idx, prodLog, normVars, linkVars, prodVars>>

\* lines 263-277: get_link returns and its urls are added
FetchSearchPageOk ==
    /\ mode = "main" /\ pc = "paging" /\ page <= max_pages
    /\ \E resp \in MainSearchPages :
        /\ get_link(resp).kind = "return"
        /\ pageLog' = Append(pageLog, [out |-> get_link(resp), had |-> Len(collected_urls)])
        /\ LET added == AddUrls(get_link(resp).urls, 1, collected_urls,
                                collected_set, max_results)
           IN  /\ collected_urls' = added.urls
               /\ collected_set' = added.seen
               /\ IF Len(added.urls) >= max_results
                  THEN pc' = "check" /\ page' = page
                  ELSE pc' = "paging" /\ page' = page + 1
    /\ UNCHANGED <<mode, max_results, max_pages, results, idx, prodLog,
                   normVars, linkVars, prodVars>>

\* line 263: range(1, max_pages + 1) is exhausted
PagingExhausted ==
    /\ mode = "main" /\ pc = "paging" /\ page > max_pages
    /\ pc' = "check"
    /\ UNCHANGED <<mode, max_results, max_pages, page, collected_urls, collected_set,
                   results, idx, pageLog, prodLog, normVars, linkVars, prodVars>>

\* lines 282-284: nothing collected, main returns
NoUrlsFound ==
    /\ mode = "main" /\ pc = "check" /\ collected_urls = <<>>
    /\ pc' = "exit"
    /\ UNCHANGED <<mode, max_results, max_pages, page, collected_urls, collected_set,
                   results, idx, pageLog, prodLog, normVars, linkVars, prodVars>>

\* lines 286-287: the product loop starts
StartProducts ==
    /\ mode = "main" /\ pc = "check" /\ collected_urls # <<>>
    /\ pc' = "products"
    /\ results' = <<>>
    /\ idx' = 0
    /\ UNCHANGED <<mode, max_results, max_pages, page, collected_urls, collected_set,
                   pageLog, prodLog, normVars, linkVars, prodVars>>

\* lines 289-292: prod_info returns a record
FetchProductOk ==
    /\ mode = "main" /\ pc = "products" /\ idx < Len(ToFetch)
    /\ \E pg \in MainProductPages :
        /\ prod_info(pg).kind = "return"
        /\ results' = Append(results, WithUrl(prod_info(pg).info, ToFetch[idx + 1]))
        /\ prodLog' = Append(prodLog, [url |-> ToFetch[idx + 1], out |-> prod_info(pg)])
    /\ idx' = idx + 1
    /\ UNCHANGED <<mode, pc, max_results, max_pages, page, collected_urls,
                   collected_set, pageLog, normVars, linkVars, prodVars>>

\* lines 289-294: prod_info raises
FetchProductFail ==
    /\ mode = "main" /\ pc = "products" /\ idx < Len(ToFetch)
    /\ \E pg \in MainProductPages :
        /\ prod_info(pg).kind = "raise"
        /\ prodLog' = Append(prodLog, [url |-> ToFetch[idx + 1], out |-> prod_info(pg)])
    /\ idx' = OnProductFailure(idx, Len(ToFetch))
    /\ UNCHANGED <<mode, pc, max_results, max_pages, page, collected_urls,
                   collected_set, results, pageLog, normVars, linkVars, prodVars>>

\* lines 298-308: the loop is over; the results are printed and saved
ProductsDone ==
    /\ mode = "main" /\ pc = "products" /\ idx >= Len(ToFetch)
    /\ pc' = "done"
    /\ UNCHANGED <<mode, max_results, max_pages, page, collected_urls, collected_set,
                   results, idx, pageLog, prodLog, normVars, linkVars, prodVars>>

NextMain ==
    \/ FetchSearchPageFail \/ FetchSearchPageOk \/ PagingExhausted
    \/ NoUrlsFound \/ StartProducts
    \/ FetchProductOk \/ FetchProductFail \/ ProductsDone

SpecMain == InitMain /\ [][NextMain]_vars

\* the urls of the first n fetched search pages, one after the other
RECURSIVE UrlsOfPages(_, _)
UrlsOfPages(log, n) ==
    IF n = 0 THEN <<>> ELSE UrlsOfPages(log, n - 1) \o log[n].out.urls

\* C1: once the fetch of page p fails, p is the last page fetched, the paging
\* loop is over, collected_urls is the deduplicated list of the urls of pages
\* 1..p-1, and the product loop fetches exactly those URLs, in order
C1_PageFailureStopsPaging ==
    mode = "main" =>
        \A p \in 1..Len(pageLog) :
            pageLog[p].out.kind = "raise" =>
                /\ p = Len(pageLog)
                /\ pc # "paging"
                /\ collected_urls = DedupeLoop(UrlsOfPages(pageLog, p - 1))
                /\ Len(prodLog) <= Len(collected_urls)
                /\ \A k \in 1..Len(prodLog) : prodLog[k].url = collected_urls[k]
                /\ pc = "done" => Len(prodLog) = Len(collected_urls)

\* C1 witness: pages 1 and 2 gave two URLs, page 3 failed, and the product
\* loop ran over the two URLs
C1_Witness ==
    /\ mode = "main" /\ pc = "done"
    /\ Len(pageLog) = 3 /\ pageLog[3].out.kind = "raise"
    /\ pageLog[1].out.urls # <<>> /\ pageLog[2].out.urls # <<>>
    /\ Len(collected_urls) = 2 /\ Len(prodLog) = 2

\* the records of the successful fetches of a log, each with its URL, in order
RECURSIVE SuccessRecords(_)
SuccessRecords(log) ==
    IF log = <<>> THEN <<>>
    ELSE LET rest == SuccessRecords(SubSeq(log, 1, Len(log) - 1))
             e    == log[Len(log)]
         IN  IF e.out.kind = "return"
             THEN Append(rest, e.out.info @@ ("url" :> e.url))
             ELSE rest

Failures(log) == {k \in 1..Len(log) : log[k].out.kind = "raise"}

\* C2: the product loop fetches the URLs of collected_urls[:max_results] one
\* by one in list order whatever fails, and when it is over every one of them
\* was fetched once and results holds the records of the successful fetches in
\* that order, each with its URL; with one failure that is one record less
C2_ProductFailureContinues ==
    mode = "main" =>
        /\ Len(prodLog) <= Len(ToFetch)
        /\ \A k \in 1..Len(prodLog) : prodLog[k].url = ToFetch[k]
        /\ pc = "done" =>
               /\ Len(prodLog) = Len(ToFetch)
               /\ results = SuccessRecords(prodLog)
               /\ \A j \in 1..Len(results) : results[j].url \in Range(ToFetch)
               /\ Cardinality(Failures(prodLog)) = 1 =>
                      Len(results) = Len(ToFetch) - 1

\* C2 witness: three URLs, the second fetch failed, two records came back
C2_Witness ==
    /\ mode = "main" /\ pc = "done"
    /\ Len(ToFetch) = 3 /\ Failures(prodLog) = {2}
    /\ Len(results) = 2
    /\ results[1].url = ToFetch[1] /\ results[2].url = ToFetch[3]

\* the bounds on the collected list and on the fetches, for a given limit
WithinLimit ==
    /\ \A i, j \in 1..Len(collected_urls) : i # j => collected_urls[i] # collected_urls[j]
    /\ Len(collected_urls) <= max_results
    /\ \A p \in 2..Len(pageLog) : pageLog[p].had < max_results
    /\ Len(prodLog) <= max_results

\* C9 as claimed: for every max_results, collected_urls has no duplicate and
\* at most max_results entries, no further search page is fetched once it has
\* max_results entries, and at most max_results product pages are fetched
C9_CollectedWithinLimit == mode = "main" => WithinLimit

\* the same bounds hold whenever max_results is at least 1
CollectedWithinPositiveLimit == (mode = "main" /\ max_results >= 1) => WithinLimit

----------------------------------------------------------------------------
(* All components together *)

Init == InitNorm \/ InitLink \/ InitProd \/ InitMain

Next == NextNorm \/ NextLink \/ NextProd \/ NextMain

Spec == Init /\ [][Next]_vars
====
